---- MODULE Spec2Model ----
(***************************************************************************)
(* HelpDesk cartridge-request system (AlbinaSergey/TelegramBot).           *)
(*                                                                         *)
(* Two parts of the program are modelled over one durable store:           *)
(*   - database/db_utils.py, class HelpDeskDB: create_request,             *)
(*     add_request_item, update_request_status, _generate_request_code,    *)
(*     run by concurrent callers (Procs).  Each group of statements that   *)
(*     runs on its own sqlite connection is one step; a `with conn:` block *)
(*     commits as a whole or rolls back as a whole.  Callers pass no       *)
(*     executor_id.                                                        *)
(*   - bot/main.py, class BotManager: the aiogram FSM handlers of the      *)
(*     request form, one action per handler.  An event of the form         *)
(*     (branch:<id>, priority:<p>, cartridge:<id>, confirm:yes|no) is      *)
(*     given to the handler that parses it; callback handlers are          *)
(*     registered without a state filter and run in every state, message   *)
(*     handlers only in the state they are registered for.                 *)
(*     `RequestStates.X.set()` sets the user's FSM state to X.             *)
(*     request_manager.create_request / add_request_items and              *)
(*     log_manager.add_log are three calls, each writing its rows on its   *)
(*     own; handle_confirm_request undoes nothing when a later call fails. *)
(*     The replies to the user (message.answer, edit_text) are the         *)
(*     handler's result, handed to the transport; bot.send_message to an   *)
(*     admin in notify_admins_new_request may raise.                       *)
(* The store's constraints are those of the schema in database/migrate.py. *)
(* Python's None is the string "None"; a timestamp column is TRUE when it  *)
(* is set.                                                                 *)
(***************************************************************************)
EXTENDS Integers, Sequences, FiniteSets, TLC

\* ------------------------------------------------------------------ bounds
MaxLogs     == 3     \* rows the logs table may hold in the model
MaxDepth    == 6     \* depth at which the interpreter stops the recursion of
                     \* _generate_request_code with RecursionError
MaxAwait    == 2     \* confirm handlers of one user suspended at an await
MaxIds      == 2     \* request ids handed out up to which cleanup_test_data
                     \* still deletes

Procs == {1, 2}      \* concurrent callers of HelpDeskDB
Codes == {1, 2}      \* candidate codes REQ-<date>-XXX of the current day
Users == {101, 102}  \* Telegram users talking to the bot
ADMIN_IDS == {901, 902}  \* Telegram ids listed in the environment's ADMIN_IDS

\* ------------------------------------------------------- catalog (seeded)
Branches   == {1, 2}          \* ids of active rows of table branches
Cartridges == {1, 2}          \* ids of rows of table cartridge_types
\* ids the callbacks of the model carry; 9 resolves against no table
BranchIds    == {1, 9}
CartridgeIds == {2}

Priorities == {"low", "normal", "high"}
Statuses   == {"new", "in_progress", "done", "cancelled", "archived"}

\* The legal edges of spec 4.2 (the code has no such table).
Legal == {<<"new", "in_progress">>, <<"new", "cancelled">>,
          <<"in_progress", "done">>, <<"in_progress", "cancelled">>,
          <<"done", "archived">>, <<"cancelled", "archived">>}

VARIABLES
    requests,   \* table requests: id -> row
    items,      \* table request_items, in insertion order
    logs,       \* table logs, in insertion order
    nextId,     \* next value of requests.id
    pc,         \* per caller of HelpDeskDB: the statement it is at
    loc,        \* per caller: arguments and local variables
    result,     \* per caller: outcome of its last finished call
    fsm_state,  \* aiogram FSM state per Telegram user
    fsm_data,   \* aiogram FSM data per Telegram user
    awaiting,   \* per user: confirm handlers suspended before state.clear()
    outcome,    \* per user: what the confirm handler under way answered
    to_notify,  \* per user: suspended confirm handlers that created a request
                \* and have notify_admins_new_request still before them
    notified,   \* calls of notify_admins_new_request so far
    notify_errors, \* "Failed to notify admin" lines logged by the last call
                   \* of notify_admins_new_request
    entered     \* history, per user: the fields stored since the user's most
                \* recent /new (kept by SpecRestart only)

store == <<requests, items, logs, nextId>>
procs == <<pc, loc, result>>
notif == <<to_notify, notified, notify_errors>>
bot   == <<fsm_state, fsm_data, awaiting, outcome, notif, entered>>
vars  == <<requests, items, logs, nextId, pc, loc, result,
           fsm_state, fsm_data, awaiting, outcome,
           to_notify, notified, notify_errors, entered>>

\* ---------------------------------------------------------------- helpers
RequestIds == DOMAIN requests

\* SELECT id FROM requests WHERE request_code = ?
existing(code) == {r \in RequestIds : requests[r].request_code = code}

\* SELECT r.* ... FROM requests r JOIN branches b ON r.branch_id = b.id
\*   JOIN users u ON r.user_id = u.id ... WHERE r.request_code = ?
\* over the tables reqs, branches and users.
RequestsByCode(reqs, code) ==
    {r \in DOMAIN reqs : /\ reqs[r].request_code = code
                         /\ reqs[r].branch_id \in Branches
                         /\ reqs[r].user_id \in Users}

get_request_by_code(code) == RequestsByCode(requests, code)

\* SELECT ri.* ... FROM request_items ri
\*   JOIN cartridge_types ct ON ri.cartridge_type_id = ct.id
\*   JOIN requests r ON ri.request_id = r.id WHERE r.request_code = ?
\* over the tables its, reqs and cartridge_types.
ItemsByCode(reqs, its, code) ==
    SelectSeq(its, LAMBDA i : /\ i.cartridge_type_id \in Cartridges
                              /\ i.request_id \in DOMAIN reqs
                              /\ reqs[i.request_id].request_code = code)

get_request_items(code) == ItemsByCode(requests, items, code)

\* (the table without its UNIQUE constraint)
UniqueCodeOk_NoConstraint(code) == TRUE

\* requests.request_code TEXT UNIQUE NOT NULL
UniqueCodeOk(code) == \A r \in RequestIds : requests[r].request_code # code

\* requests.priority CHECK(priority IN ('low','normal','high'))
PriorityCheckOk(priority) == priority \in Priorities

\* request_items.quantity CHECK(quantity>0)
QuantityCheckOk(quantity) == quantity > 0

\* INSERT INTO requests (request_code, branch_id, user_id, priority, comment);
\* status takes the column default 'new', the timestamps are NULL.
NewRequestRow(code, branch_id, user_id, priority, comment) ==
    [request_code |-> code, branch_id |-> branch_id, user_id |-> user_id,
     priority |-> priority, status |-> "new", comment |-> comment,
     completed_at |-> FALSE, sla_notified_at |-> FALSE]

\* (the two status columns bound in the wrong order)
LogRow_StatusesSwapped(request_id, user_id, action, from_status, to_status) ==
    [request_id |-> request_id, user_id |-> user_id, action |-> action,
     from_status |-> to_status, to_status |-> from_status]

\* _log_request_action: INSERT INTO logs (...)
LogRow(request_id, user_id, action, from_status, to_status) ==
    [request_id |-> request_id, user_id |-> user_id, action |-> action,
     from_status |-> from_status, to_status |-> to_status]

\* (the two value columns bound in the wrong order)
ItemRow_ColumnsSwapped(request_id, cartridge_type_id, quantity) ==
    [request_id |-> request_id, cartridge_type_id |-> quantity,
     quantity |-> cartridge_type_id]

\* INSERT INTO request_items (request_id, cartridge_type_id, quantity)
ItemRow(request_id, cartridge_type_id, quantity) ==
    [request_id |-> request_id, cartridge_type_id |-> cartridge_type_id,
     quantity |-> quantity]

\* (the UPDATE without its completed_at clause)
StatusUpdate_NoCompletedAt(code, new_status) ==
    [r \in RequestIds |->
        IF requests[r].request_code = code
        THEN [requests[r] EXCEPT !.status = new_status]
        ELSE requests[r]]

\* UPDATE requests SET status = ? [, completed_at = CURRENT_TIMESTAMP]
\*   WHERE request_code = ?
StatusUpdate(code, new_status) ==
    [r \in RequestIds |->
        IF requests[r].request_code = code
        THEN [requests[r] EXCEPT !.status = new_status,
                                 !.completed_at = IF new_status = "done"
                                                  THEN TRUE ELSE @]
        ELSE requests[r]]

LogsOf(r)  == SelectSeq(logs, LAMBDA l : l.request_id = r)
ItemsOf(r) == SelectSeq(items, LAMBDA i : i.request_id = r)

NoLoc == [op |-> "none", code |-> 0, branch_id |-> 0, user_id |-> 0,
          priority |-> "none", comment |-> "None", todo |-> <<>>,
          new_status |-> "none", old_status |-> "none", rid |-> 0,
          depth |-> 0]

\* What the callers of the model pass to create_request / add_request_item.
CreateInputs ==
    { [branch_id |-> 1, user_id |-> 101, priority |-> "normal",
       comment |-> "None", todo |-> << <<1, 3>> >>],
      [branch_id |-> 2, user_id |-> 102, priority |-> "high",
       comment |-> "text", todo |-> << <<1, 3>>, <<2, 2>> >>] }

\* log rows reserved by calls that are under way, so that the table stays
\* bounded
PendingLogs     == Cardinality({p \in Procs : pc[p] \in {"gen", "insert", "upd_write"}})

Init ==
    /\ requests = <<>>
    /\ items = <<>>
    /\ logs = <<>>
    /\ nextId = 1
    /\ pc = [p \in Procs |-> "idle"]
    /\ loc = [p \in Procs |-> NoLoc]
    /\ result = [p \in Procs |-> "none"]
    /\ fsm_state = [u \in Users |-> "None"]
    /\ fsm_data = [u \in Users |-> <<>>]
    /\ awaiting = [u \in Users |-> 0]
    /\ outcome = [u \in Users |-> "none"]
    /\ to_notify = [u \in Users |-> 0]
    /\ notified = 0
    /\ notify_errors = 0
    /\ entered = [u \in Users |-> {}]

\* ------------------------------------------------ HelpDeskDB.create_request
\* A caller starts create_request(branch_id, user_id, priority, comment); the
\* items of its attempt are added afterwards with add_request_item.
create_request_call(p) ==
    /\ pc[p] = "idle"
    /\ Len(logs) + PendingLogs < MaxLogs
    /\ \E in \in CreateInputs :
          loc' = [loc EXCEPT ![p] =
                    [NoLoc EXCEPT !.op = "create", !.branch_id = in.branch_id,
                                  !.user_id = in.user_id,
                                  !.priority = in.priority,
                                  !.comment = in.comment, !.todo = in.todo]]
    /\ pc' = [pc EXCEPT ![p] = "gen"]
    /\ result' = [result EXCEPT ![p] = "none"]
    /\ UNCHANGED <<store, bot>>

\* _generate_request_code draws a candidate, finds it in the table and calls
\* itself again.
generate_request_code_retry(p) ==
    /\ pc[p] = "gen"
    /\ loc[p].depth < MaxDepth
    /\ \E c \in Codes :
          /\ existing(c) # {}
          /\ loc' = [loc EXCEPT ![p].depth = @ + 1]
    /\ UNCHANGED <<store, pc, result, bot>>

\* The recursion of _generate_request_code reaches the interpreter's limit:
\* RecursionError, create_request fails before it wrote anything.
generate_request_code_recursion_error(p) ==
    /\ pc[p] = "gen"
    /\ loc[p].depth = MaxDepth
    /\ pc' = [pc EXCEPT ![p] = "idle"]
    /\ loc' = [loc EXCEPT ![p] = [NoLoc EXCEPT !.op = "create"]]
    /\ result' = [result EXCEPT ![p] = "RecursionError"]
    /\ UNCHANGED <<store, bot>>

\* _generate_request_code draws a candidate the table does not hold and
\* returns it.
generate_request_code_return(p) ==
    /\ pc[p] = "gen"
    /\ \E c \in Codes :
          /\ existing(c) = {}
          /\ loc' = [loc EXCEPT ![p].code = c, ![p].depth = 0]
    /\ pc' = [pc EXCEPT ![p] = "insert"]
    /\ UNCHANGED <<store, result, bot>>

\* The transaction of create_request: INSERT of the request row and of the
\* 'created' log row, committed together.
create_request_commit(p) ==
    /\ pc[p] = "insert"
    /\ UniqueCodeOk(loc[p].code)
    /\ PriorityCheckOk(loc[p].priority)
    /\ requests' = [r \in RequestIds \cup {nextId} |->
                      IF r = nextId
                      THEN NewRequestRow(loc[p].code, loc[p].branch_id,
                                         loc[p].user_id, loc[p].priority,
                                         loc[p].comment)
                      ELSE requests[r]]
    /\ logs' = Append(logs, LogRow(nextId, loc[p].user_id, "created", "None", "new"))
    /\ nextId' = nextId + 1
    /\ pc' = [pc EXCEPT ![p] = "items"]
    /\ loc' = [loc EXCEPT ![p].rid = nextId]
    /\ UNCHANGED <<items, result, bot>>

\* The INSERT violates UNIQUE(request_code): sqlite3.IntegrityError leaves the
\* `with` block, the transaction is rolled back and the call fails.
create_request_integrity_error(p) ==
    /\ pc[p] = "insert"
    /\ ~ (UniqueCodeOk(loc[p].code) /\ PriorityCheckOk(loc[p].priority))
    /\ pc' = [pc EXCEPT ![p] = "idle"]
    /\ result' = [result EXCEPT ![p] = "IntegrityError"]
    /\ loc' = [loc EXCEPT ![p] = [NoLoc EXCEPT !.op = "create"]]
    /\ UNCHANGED <<store, bot>>

\* The store fails during the transaction (disconnection, locked database):
\* the `with` block rolls back and the call fails.
create_request_store_error(p) ==
    /\ pc[p] = "insert"
    /\ pc' = [pc EXCEPT ![p] = "idle"]
    /\ result' = [result EXCEPT ![p] = "StoreError"]
    /\ loc' = [loc EXCEPT ![p] = [NoLoc EXCEPT !.op = "create"]]
    /\ UNCHANGED <<store, bot>>

\* --------------------------------------------- HelpDeskDB.add_request_item
\* The caller of create_request adds the next item of its attempt.
add_request_item(p) ==
    /\ pc[p] = "items"
    /\ loc[p].todo # <<>>
    /\ LET it == Head(loc[p].todo)
           found == get_request_by_code(loc[p].code)
       IN  /\ found # {}
           /\ QuantityCheckOk(it[2])
           /\ items' = Append(items, ItemRow(CHOOSE r \in found : TRUE, it[1], it[2]))
    /\ loc' = [loc EXCEPT ![p].todo = Tail(@)]
    /\ UNCHANGED <<requests, logs, nextId, pc, result, bot>>

\* The INSERT of an item fails in the store; the request row and its log row
\* were committed by create_request before and stay.
add_request_item_store_error(p) ==
    /\ pc[p] = "items"
    /\ loc[p].todo # <<>>
    /\ pc' = [pc EXCEPT ![p] = "idle"]
    /\ result' = [result EXCEPT ![p] = "StoreError"]
    /\ loc' = [loc EXCEPT ![p] = [NoLoc EXCEPT !.op = "create", !.rid = loc[p].rid]]
    /\ UNCHANGED <<store, bot>>

\* (an INSERT under the id the caller remembers, checked afterwards)
add_request_item_not_found_InsertsFirst(p) ==
    /\ pc[p] = "items"
    /\ loc[p].todo # <<>>
    /\ get_request_by_code(loc[p].code) = {}
    /\ items' = Append(items, ItemRow(loc[p].rid, Head(loc[p].todo)[1],
                                      Head(loc[p].todo)[2]))
    /\ pc' = [pc EXCEPT ![p] = "idle"]
    /\ result' = [result EXCEPT ![p] = "ValueError"]
    /\ loc' = [loc EXCEPT ![p] = [NoLoc EXCEPT !.op = "create", !.rid = loc[p].rid]]
    /\ UNCHANGED <<requests, logs, nextId, bot>>

\* get_request_by_code finds no request under the code any more: raise
\* ValueError, nothing is written.
add_request_item_not_found(p) ==
    /\ pc[p] = "items"
    /\ loc[p].todo # <<>>
    /\ get_request_by_code(loc[p].code) = {}
    /\ pc' = [pc EXCEPT ![p] = "idle"]
    /\ result' = [result EXCEPT ![p] = "ValueError"]
    /\ loc' = [loc EXCEPT ![p] = [NoLoc EXCEPT !.op = "create", !.rid = loc[p].rid]]
    /\ UNCHANGED <<store, bot>>

\* All items of the attempt are added: the caller is done.
create_request_done(p) ==
    /\ pc[p] = "items"
    /\ loc[p].todo = <<>>
    /\ pc' = [pc EXCEPT ![p] = "idle"]
    /\ result' = [result EXCEPT ![p] = "ok"]
    /\ loc' = [loc EXCEPT ![p] = [NoLoc EXCEPT !.op = "create", !.rid = loc[p].rid]]
    /\ UNCHANGED <<store, bot>>

\* ---------------------------------------- HelpDeskDB.update_request_status
\* First connection: request = get_request_by_code(request_code);
\* old_status = request['status'].
update_request_status_read(p) ==
    /\ pc[p] = "idle"
    /\ Len(logs) + PendingLogs < MaxLogs
    /\ \E code \in Codes, new_status \in Statuses :
          LET found == get_request_by_code(code) IN
          /\ found # {}
          /\ LET r == CHOOSE x \in found : TRUE IN
             loc' = [loc EXCEPT ![p] =
                       [NoLoc EXCEPT !.op = "update", !.code = code,
                                     !.new_status = new_status,
                                     !.old_status = requests[r].status,
                                     !.user_id = requests[r].user_id,
                                     !.rid = r]]
    /\ pc' = [pc EXCEPT ![p] = "upd_write"]
    /\ result' = [result EXCEPT ![p] = "none"]
    /\ UNCHANGED <<store, bot>>

\* No request has the code: raise ValueError, nothing is written.
update_request_status_not_found(p) ==
    /\ pc[p] = "idle"
    /\ \E code \in Codes, new_status \in Statuses :
          get_request_by_code(code) = {}
    /\ result' = [result EXCEPT ![p] = "ValueError"]
    /\ UNCHANGED <<store, pc, loc, bot>>

\* (the UPDATE committed on its own, the log row left to a later transaction)
update_request_status_write_StatusOnly(p) ==
    /\ pc[p] = "upd_write"
    /\ requests' = StatusUpdate(loc[p].code, loc[p].new_status)
    /\ pc' = [pc EXCEPT ![p] = "idle"]
    /\ result' = [result EXCEPT ![p] = "ok"]
    /\ loc' = [loc EXCEPT ![p] = NoLoc]
    /\ UNCHANGED <<items, logs, nextId, bot>>

\* (an UPDATE of the newest log row in place of the INSERT)
update_request_status_write_OverwritesLog(p) ==
    /\ pc[p] = "upd_write"
    /\ logs # <<>>
    /\ requests' = StatusUpdate(loc[p].code, loc[p].new_status)
    /\ logs' = [logs EXCEPT ![Len(logs)] =
                   LogRow(loc[p].rid, loc[p].user_id, "status_changed",
                          loc[p].old_status, loc[p].new_status)]
    /\ pc' = [pc EXCEPT ![p] = "idle"]
    /\ result' = [result EXCEPT ![p] = "ok"]
    /\ loc' = [loc EXCEPT ![p] = NoLoc]
    /\ UNCHANGED <<items, nextId, bot>>

\* Second connection: the UPDATE and the 'status_changed' log row, committed
\* together.  The log row carries the old_status read by the first connection.
update_request_status_write(p) ==
    /\ pc[p] = "upd_write"
    /\ requests' = StatusUpdate(loc[p].code, loc[p].new_status)
    /\ logs' = Append(logs, LogRow(loc[p].rid, loc[p].user_id, "status_changed",
                                   loc[p].old_status, loc[p].new_status))
    /\ pc' = [pc EXCEPT ![p] = "idle"]
    /\ result' = [result EXCEPT ![p] = "ok"]
    /\ loc' = [loc EXCEPT ![p] = NoLoc]
    /\ UNCHANGED <<items, nextId, bot>>

\* The store fails during the second transaction: rolled back.
update_request_status_store_error(p) ==
    /\ pc[p] = "upd_write"
    /\ pc' = [pc EXCEPT ![p] = "idle"]
    /\ result' = [result EXCEPT ![p] = "StoreError"]
    /\ loc' = [loc EXCEPT ![p] = NoLoc]
    /\ UNCHANGED <<store, bot>>

\* ------------------------------------------------------------------- SLA
\* (a query without its sla_notified_at condition)
get_sla_violations_IgnoresNotified(overdue) ==
    {r \in RequestIds : /\ requests[r].branch_id \in Branches
                        /\ requests[r].user_id \in Users
                        /\ requests[r].status \in {"new", "in_progress"}
                        /\ r \in overdue}

\* SELECT r.* ... FROM requests r JOIN branches b ... JOIN users u ...
\*   WHERE r.status IN ('new', 'in_progress')
\*   AND datetime(r.created_at, '+N hours') < datetime('now')
\*   AND r.sla_notified_at IS NULL
\* where overdue is the set of requests older than the threshold at the time
\* of the call.
get_sla_violations(overdue) ==
    {r \in RequestIds : /\ requests[r].branch_id \in Branches
                        /\ requests[r].user_id \in Users
                        /\ requests[r].status \in {"new", "in_progress"}
                        /\ r \in overdue
                        /\ ~ requests[r].sla_notified_at}

\* UPDATE requests SET sla_notified_at = CURRENT_TIMESTAMP
\*   WHERE request_code = ?
mark_sla_notified(code) ==
    /\ requests' = [r \in RequestIds |->
                      IF requests[r].request_code = code
                      THEN [requests[r] EXCEPT !.sla_notified_at = TRUE]
                      ELSE requests[r]]
    /\ UNCHANGED <<items, logs, nextId, procs, bot>>

\* -------------------------------------------------------- cleanup_test_data
\* execute_update("DELETE FROM requests WHERE id = ?", (request_id,)).
\* Under the schema of migrate.py (REFERENCES requests(id) ON DELETE CASCADE)
\* the items and log rows of the request go with it; a sqlite connection as
\* get_connection opens it (no PRAGMA foreign_keys) deletes the row alone.
cleanup_test_data ==
    /\ nextId <= MaxIds
    /\ \E request_id \in RequestIds, cascade \in BOOLEAN :
          /\ requests' = [r \in RequestIds \ {request_id} |-> requests[r]]
          /\ items' = IF cascade
                      THEN SelectSeq(items, LAMBDA i : i.request_id # request_id)
                      ELSE items
          /\ logs' = IF cascade
                     THEN SelectSeq(logs, LAMBDA l : l.request_id # request_id)
                     ELSE logs
    /\ UNCHANGED <<nextId, procs, bot>>

\* ======================================================= bot/main.py
\* ------------------------------------------------------------- int(text)
Digits == <<"0", "1", "2", "3", "4", "5", "6", "7", "8", "9">>
IsDigit(c) == \E i \in 1..10 : Digits[i] = c
DigitVal(c) == (CHOOSE i \in 1..10 : Digits[i] = c) - 1

RECURSIVE Strip(_)
Strip(t) ==
    IF t # <<>> /\ Head(t) = " " THEN Strip(Tail(t))
    ELSE IF t # <<>> /\ t[Len(t)] = " " THEN Strip(SubSeq(t, 1, Len(t) - 1))
    ELSE t

RECURSIVE DigitsValue(_)
DigitsValue(t) ==
    IF t = <<>> THEN 0
    ELSE 10 * DigitsValue(SubSeq(t, 1, Len(t) - 1)) + DigitVal(t[Len(t)])

Unsigned(t) == IF t # <<>> /\ Head(t) \in {"-", "+"} THEN Tail(t) ELSE t

\* int(message.text) raises ValueError
IntRaises(text) ==
    LET u == Unsigned(Strip(text))
    IN  u = <<>> \/ \E i \in 1..Len(u) : ~ IsDigit(u[i])

\* (a parse that drops the sign)
IntValue_SignDropped(text) == DigitsValue(Unsigned(Strip(text)))

\* int(message.text), where it does not raise
IntValue(text) ==
    LET s == Strip(text)
        v == DigitsValue(Unsigned(s))
    IN  IF s # <<>> /\ Head(s) = "-" THEN 0 - v ELSE v

\* texts a user sends while the bot waits for a quantity
CancelText == <<"/", "c", "a", "n", "c", "e", "l">>
QuantityTexts == { <<"a", "b">>, <<"0">>, <<"-", "3">>, <<" ", "1", "2">> }
\* texts a user sends while the bot waits for a comment
CommentTexts == {"-"}
\* values the priority callback carries ("urgent" is on no keyboard)
PriorityInputs == {"high", "urgent"}

\* ------------------------------------------------------------ FSMContext
\* state.update_data(key=value)
update_data(data, key, value) ==
    [k \in DOMAIN data \cup {key} |-> IF k = key THEN value ELSE data[k]]

Has(data, key) == key \in DOMAIN data

\* data['branch_id'] and data['cartridge_id'] raise no KeyError
CatalogKeysOk(data) == Has(data, "branch_id") /\ Has(data, "cartridge_id")

\* (a confirmation text that does not show the priority)
ConfirmationTextOk_NoPriority(data) == Has(data, "quantity")

\* priority_emoji[data['priority']] and data['quantity'] raise no KeyError
ConfirmationTextOk(data) ==
    /\ Has(data, "priority")
    /\ data["priority"] \in {"low", "normal", "high"}
    /\ Has(data, "quantity")

\* next(b for b in branches if b['id'] == data['branch_id']) and the same for
\* the cartridge both find a row
CatalogResolves(data) ==
    /\ data["branch_id"] \in Branches
    /\ data["cartridge_id"] \in Cartridges

\* data[key] of every key handle_confirm_request reads raises no KeyError
ConfirmKeysOk(data) ==
    /\ Has(data, "branch_id")
    /\ Has(data, "priority")
    /\ Has(data, "comment")
    /\ Has(data, "cartridge_id")
    /\ Has(data, "quantity")

\* what the handler answers with callback.message.edit_text
Answer(u, what) == outcome' = [outcome EXCEPT ![u] = what]

\* /new: cmd_new_request for a registered user with branches in the catalog
cmd_new_request(u) ==
    /\ fsm_state' = [fsm_state EXCEPT ![u] = "selecting_branch"]
    /\ UNCHANGED <<store, procs, fsm_data, awaiting, outcome, notif>>

\* (a storage that keeps one record for all users)
handle_branch_selection_SharedData(u, id) ==
    /\ fsm_data' = [v \in Users |-> update_data(fsm_data[v], "branch_id", id)]
    /\ fsm_state' = [fsm_state EXCEPT ![u] = "selecting_priority"]
    /\ UNCHANGED <<store, procs, awaiting, outcome, notif>>

\* /new from a user get_user_by_telegram_id does not find, or with no branch
\* in the catalog: the handler answers and returns.
cmd_new_request_not_found(u) ==
    UNCHANGED vars

\* callback branch:<id>
handle_branch_selection(u, id) ==
    /\ fsm_data' = [fsm_data EXCEPT ![u] = update_data(@, "branch_id", id)]
    /\ fsm_state' = [fsm_state EXCEPT ![u] = "selecting_priority"]
    /\ UNCHANGED <<store, procs, awaiting, outcome, notif>>

\* callback priority:<p>
handle_priority_selection(u, priority) ==
    /\ fsm_data' = [fsm_data EXCEPT ![u] = update_data(@, "priority", priority)]
    /\ fsm_state' = [fsm_state EXCEPT ![u] = "selecting_cartridges"]
    /\ UNCHANGED <<store, procs, awaiting, outcome, notif>>

\* callback cartridge:<id>
handle_cartridge_selection(u, id) ==
    /\ fsm_data' = [fsm_data EXCEPT ![u] = update_data(@, "cartridge_id", id)]
    /\ fsm_state' = [fsm_state EXCEPT ![u] = "entering_quantity"]
    /\ UNCHANGED <<store, procs, awaiting, outcome, notif>>

\* (a handler that stores the number before it looks at its sign)
handle_quantity_input_StoresFirst(u, text) ==
    /\ fsm_state[u] = "entering_quantity"
    /\ IF IntRaises(text)
       THEN UNCHANGED <<fsm_state, fsm_data>>
       ELSE /\ fsm_data' = [fsm_data EXCEPT ![u] =
                              update_data(@, "quantity", IntValue(text))]
            /\ fsm_state' = [fsm_state EXCEPT ![u] =
                               IF IntValue(text) <= 0 THEN @ ELSE "adding_comment"]
    /\ UNCHANGED <<store, procs, awaiting, outcome, notif>>

\* handle_quantity_input on the text of a message, in state entering_quantity
handle_quantity_input(u, text) ==
    /\ fsm_state[u] = "entering_quantity"
    /\ IF IntRaises(text) \/ IntValue(text) <= 0
       THEN UNCHANGED <<fsm_state, fsm_data>>
       ELSE /\ fsm_data' = [fsm_data EXCEPT ![u] =
                              update_data(@, "quantity", IntValue(text))]
            /\ fsm_state' = [fsm_state EXCEPT ![u] = "adding_comment"]
    /\ UNCHANGED <<store, procs, awaiting, outcome, notif>>

\* handle_comment_input on the text of a message, in state adding_comment
handle_comment_input(u, text) ==
    /\ fsm_state[u] = "adding_comment"
    /\ LET comment == IF text # "-" THEN text ELSE "None"
           data == update_data(fsm_data[u], "comment", comment)
       IN  IF ~ CatalogKeysOk(data)
           THEN \* KeyError leaves the handler after update_data
                /\ fsm_data' = [fsm_data EXCEPT ![u] = data]
                /\ UNCHANGED fsm_state
           ELSE IF ~ CatalogResolves(data)
           THEN \* "data not found": state.clear()
                /\ fsm_data' = [fsm_data EXCEPT ![u] = <<>>]
                /\ fsm_state' = [fsm_state EXCEPT ![u] = "None"]
           ELSE IF ~ ConfirmationTextOk(data)
           THEN \* KeyError while the confirmation text is built
                /\ fsm_data' = [fsm_data EXCEPT ![u] = data]
                /\ UNCHANGED fsm_state
           ELSE /\ fsm_data' = [fsm_data EXCEPT ![u] = data]
                /\ fsm_state' = [fsm_state EXCEPT ![u] = "confirming_request"]
    /\ UNCHANGED <<store, procs, awaiting, outcome, notif>>

\* The message "/cancel": no Command("cancel") handler is registered, so the
\* message reaches the handler registered for the user's state, if any.
cmd_cancel(u) ==
    IF fsm_state[u] = "entering_quantity"
    THEN handle_quantity_input(u, CancelText)
    ELSE IF fsm_state[u] = "adding_comment"
    THEN handle_comment_input(u, "/cancel")
    ELSE UNCHANGED vars

\* ------------------------------------------------ handle_confirm_request
\* Every path of the handler awaits callback.message.edit_text before it
\* reaches state.clear(); the coroutine is suspended there (Suspend) and
\* clears the session when it is resumed (handle_confirm_request_resume).
Suspend(u) == awaiting' = [awaiting EXCEPT ![u] = @ + 1]

CanWrite == Len(logs) < MaxLogs

\* generate_request_code() returns: some code no request carries
FreeCodes == {c \in Codes : existing(c) = {}}

\* (a call that leaves the priority to the column default)
BotRequestRow_DefaultPriority(u, code) ==
    NewRequestRow(code, fsm_data[u]["branch_id"], u, "normal",
                  fsm_data[u]["comment"])

\* request_manager.create_request(request_code, branch_id, user_id, priority,
\* comment): the request row as the table holds it
BotRequestRow(u, code) ==
    NewRequestRow(code, fsm_data[u]["branch_id"], u, fsm_data[u]["priority"],
                  fsm_data[u]["comment"])

InsertRequest(row) ==
    [r \in RequestIds \cup {nextId} |-> IF r = nextId THEN row ELSE requests[r]]

\* log_manager.add_log(request_id, user_id, action='created', note): the
\* 'created' entry of a request, from no status to new
BotCreatedLog(u, request_id) == LogRow(request_id, u, "created", "None", "new")

\* callback confirm:no
handle_confirm_request_no(u) ==
    /\ awaiting[u] < MaxAwait
    /\ Suspend(u)
    /\ Answer(u, "cancelled")
    /\ UNCHANGED <<store, procs, fsm_state, fsm_data, notif>>

\* (a handler that calls notify_admins_new_request behind the except block)
handle_confirm_request_create_failed_Notifies(u) ==
    /\ awaiting[u] < MaxAwait
    /\ Suspend(u)
    /\ Answer(u, "error")
    /\ to_notify' = [to_notify EXCEPT ![u] = @ + 1]
    /\ UNCHANGED <<store, procs, fsm_state, fsm_data, notified, notify_errors>>

\* callback confirm:yes; generate_request_code() never returns (every code is
\* taken) or an argument of create_request raises KeyError, or the INSERT of
\* the request row fails: nothing is written.
handle_confirm_request_create_failed(u) ==
    /\ awaiting[u] < MaxAwait
    /\ Suspend(u)
    /\ Answer(u, "error")
    /\ UNCHANGED <<store, procs, fsm_state, fsm_data, notif>>

\* callback confirm:yes; the request row is committed, then
\* data['cartridge_id'] or data['quantity'] raises KeyError or the INSERT of
\* the item fails.
handle_confirm_request_items_failed(u) ==
    /\ awaiting[u] < MaxAwait
    /\ CanWrite
    /\ Has(fsm_data[u], "branch_id") /\ Has(fsm_data[u], "priority")
    /\ Has(fsm_data[u], "comment")
    /\ PriorityCheckOk(fsm_data[u]["priority"])
    /\ \E code \in FreeCodes :
          requests' = InsertRequest(BotRequestRow(u, code))
    /\ nextId' = nextId + 1
    /\ Suspend(u)
    /\ Answer(u, "error")
    /\ UNCHANGED <<items, logs, procs, fsm_state, fsm_data, notif>>

\* callback confirm:yes; the request row and the item are committed, then
\* log_manager.add_log fails.
handle_confirm_request_log_failed(u) ==
    /\ awaiting[u] < MaxAwait
    /\ CanWrite
    /\ ConfirmKeysOk(fsm_data[u])
    /\ PriorityCheckOk(fsm_data[u]["priority"])
    /\ QuantityCheckOk(fsm_data[u]["quantity"])
    /\ \E code \in FreeCodes :
          requests' = InsertRequest(BotRequestRow(u, code))
    /\ items' = Append(items, ItemRow(nextId, fsm_data[u]["cartridge_id"],
                                      fsm_data[u]["quantity"]))
    /\ nextId' = nextId + 1
    /\ Suspend(u)
    /\ Answer(u, "error")
    /\ UNCHANGED <<logs, procs, fsm_state, fsm_data, notif>>

\* callback confirm:yes; the three calls succeed.
handle_confirm_request_created(u) ==
    /\ awaiting[u] < MaxAwait
    /\ CanWrite
    /\ ConfirmKeysOk(fsm_data[u])
    /\ PriorityCheckOk(fsm_data[u]["priority"])
    /\ QuantityCheckOk(fsm_data[u]["quantity"])
    /\ \E code \in FreeCodes :
          requests' = InsertRequest(BotRequestRow(u, code))
    /\ items' = Append(items, ItemRow(nextId, fsm_data[u]["cartridge_id"],
                                      fsm_data[u]["quantity"]))
    /\ logs' = Append(logs, BotCreatedLog(u, nextId))
    /\ nextId' = nextId + 1
    /\ Suspend(u)
    /\ Answer(u, "created")
    /\ to_notify' = [to_notify EXCEPT ![u] = @ + 1]
    /\ UNCHANGED <<procs, fsm_state, fsm_data, notified, notify_errors>>

\* notify_admins_new_request(request_code, data): bot.send_message to every
\* admin of ADMIN_IDS; a send that raises is logged and the loop goes on.
notify_admins_new_request ==
    /\ notified' = notified + 1
    /\ \E failed \in SUBSET ADMIN_IDS :
          notify_errors' = Cardinality(failed)

\* What is left of a suspended handler before state.clear(): the handler that
\* created a request calls notify_admins_new_request, the others nothing.
handle_confirm_request_tail(u) ==
    \/ /\ to_notify[u] > 0
       /\ to_notify' = [to_notify EXCEPT ![u] = @ - 1]
       /\ notify_admins_new_request
    \/ /\ to_notify[u] < awaiting[u]
       /\ UNCHANGED notif

\* (a handler that resets the state and keeps the data)
handle_confirm_request_resume_KeepsData(u) ==
    /\ awaiting[u] > 0
    /\ handle_confirm_request_tail(u)
    /\ awaiting' = [awaiting EXCEPT ![u] = @ - 1]
    /\ fsm_state' = [fsm_state EXCEPT ![u] = "None"]
    /\ outcome' = [outcome EXCEPT ![u] = IF awaiting[u] = 1 THEN "none" ELSE @]
    /\ UNCHANGED <<store, procs, fsm_data>>

\* the suspended handler goes on: the notification of the admins when it
\* created a request, then await state.clear()
handle_confirm_request_resume(u) ==
    /\ awaiting[u] > 0
    /\ handle_confirm_request_tail(u)
    /\ awaiting' = [awaiting EXCEPT ![u] = @ - 1]
    /\ fsm_state' = [fsm_state EXCEPT ![u] = "None"]
    /\ fsm_data' = [fsm_data EXCEPT ![u] = <<>>]
    /\ outcome' = [outcome EXCEPT ![u] = IF awaiting[u] = 1 THEN "none" ELSE @]
    /\ UNCHANGED <<store, procs>>

BotNext(U) ==
    \E u \in U :
        \/ cmd_new_request(u) /\ UNCHANGED entered
        \/ /\ \E id \in BranchIds : handle_branch_selection(u, id)
           /\ UNCHANGED entered
        \/ /\ \E priority \in PriorityInputs : handle_priority_selection(u, priority)
           /\ UNCHANGED entered
        \/ /\ \E id \in CartridgeIds : handle_cartridge_selection(u, id)
           /\ UNCHANGED entered
        \/ /\ \E text \in QuantityTexts : handle_quantity_input(u, text)
           /\ UNCHANGED entered
        \/ /\ \E text \in CommentTexts : handle_comment_input(u, text)
           /\ UNCHANGED entered
        \/ cmd_cancel(u) /\ UNCHANGED entered
        \/ handle_confirm_request_no(u) /\ UNCHANGED entered
        \/ handle_confirm_request_create_failed(u) /\ UNCHANGED entered
        \/ handle_confirm_request_items_failed(u) /\ UNCHANGED entered
        \/ handle_confirm_request_log_failed(u) /\ UNCHANGED entered
        \/ handle_confirm_request_created(u) /\ UNCHANGED entered
        \/ handle_confirm_request_resume(u) /\ UNCHANGED entered

SpecBot == Init /\ [][BotNext({101})]_vars

\* ------------------------------------------------- users who follow the form
\* The events of users who answer the prompt in front of them: they press a
\* button of the keyboard the last handler sent, or send a text when the bot
\* asked for one, and press a confirmation button once.
FlowBranchIds     == Branches         \* buttons branch:<id> of cmd_new_request
FlowPriorities    == {"high"}         \* a button of handle_branch_selection
FlowCartridgeIds  == {2}              \* a button of handle_priority_selection
FlowQuantityTexts == { <<"-", "3">>, <<"5">> }
FlowCommentTexts  == {"-", "", "ok"}

FlowNext(U, branch_ids, quantity_texts, comment_texts) ==
    \E u \in U :
        \/ fsm_state[u] = "None" /\ cmd_new_request(u) /\ UNCHANGED entered
        \/ /\ fsm_state[u] = "selecting_branch"
           /\ \E id \in branch_ids : handle_branch_selection(u, id)
           /\ UNCHANGED entered
        \/ /\ fsm_state[u] = "selecting_priority"
           /\ \E priority \in FlowPriorities : handle_priority_selection(u, priority)
           /\ UNCHANGED entered
        \/ /\ fsm_state[u] = "selecting_cartridges"
           /\ \E id \in FlowCartridgeIds : handle_cartridge_selection(u, id)
           /\ UNCHANGED entered
        \/ /\ \E text \in quantity_texts : handle_quantity_input(u, text)
           /\ UNCHANGED entered
        \/ /\ \E text \in comment_texts : handle_comment_input(u, text)
           /\ UNCHANGED entered
        \/ /\ fsm_state[u] = "confirming_request" /\ awaiting[u] = 0
           /\ \/ handle_confirm_request_no(u)
              \/ handle_confirm_request_create_failed(u)
              \/ handle_confirm_request_items_failed(u)
              \/ handle_confirm_request_log_failed(u)
              \/ handle_confirm_request_created(u)
           /\ UNCHANGED entered
        \/ handle_confirm_request_resume(u) /\ UNCHANGED entered

\* one user, every input of the form
SpecFlow ==
    Init /\ [][FlowNext({101}, FlowBranchIds, FlowQuantityTexts, FlowCommentTexts)]_vars

\* The event loop resumes a handler suspended at an await once the call it
\* waits for returns; nothing obliges a user to send another event.
SpecFlowFair ==
    SpecFlow /\ WF_vars(handle_confirm_request_resume(101) /\ UNCHANGED entered)

\* two users at once
SpecSessions ==
    Init /\ [][FlowNext(Users, FlowBranchIds, {<<"5">>}, {"-"})]_vars

\* ------------------------------------------- the fields a form has received
\* The events of BotNext for one choice of each input, with the record of the
\* fields stored since the user's most recent /new: /new starts the record
\* afresh, a handler that stores a field adds it, state.clear() empties it.
Enter(u, key) == entered' = [entered EXCEPT ![u] = @ \cup {key}]

RestartNext(U) ==
    \E u \in U :
        \/ cmd_new_request(u) /\ entered' = [entered EXCEPT ![u] = {}]
        \/ handle_branch_selection(u, 1) /\ Enter(u, "branch_id")
        \/ handle_priority_selection(u, "high") /\ Enter(u, "priority")
        \/ handle_cartridge_selection(u, 2) /\ Enter(u, "cartridge_id")
        \/ /\ handle_quantity_input(u, <<" ", "1", "2">>)
           /\ Enter(u, "quantity")
        \/ /\ handle_comment_input(u, "-")
           /\ entered' = [entered EXCEPT ![u] =
                             IF fsm_data'[u] = <<>> THEN {} ELSE @ \cup {"comment"}]
        \/ handle_confirm_request_no(u) /\ UNCHANGED entered
        \/ handle_confirm_request_create_failed(u) /\ UNCHANGED entered
        \/ handle_confirm_request_items_failed(u) /\ UNCHANGED entered
        \/ handle_confirm_request_log_failed(u) /\ UNCHANGED entered
        \/ handle_confirm_request_created(u) /\ UNCHANGED entered
        \/ /\ handle_confirm_request_resume(u)
           /\ entered' = [entered EXCEPT ![u] = {}]

SpecRestart == Init /\ [][RestartNext({101})]_vars

\* ------------------------------------------------- a user not registered
\* The events of a user the table users does not hold (or holds as inactive):
\* /new takes the branch that returns, every other update reaches the same
\* handlers as for anybody.
UnregisteredNext(U) ==
    \E u \in U :
        \/ cmd_new_request_not_found(u)
        \/ handle_branch_selection(u, 1) /\ UNCHANGED entered
        \/ handle_priority_selection(u, "high") /\ UNCHANGED entered
        \/ handle_cartridge_selection(u, 2) /\ UNCHANGED entered
        \/ /\ \E text \in QuantityTexts : handle_quantity_input(u, text)
           /\ UNCHANGED entered
        \/ handle_comment_input(u, "-") /\ UNCHANGED entered
        \/ handle_confirm_request_no(u) /\ UNCHANGED entered
        \/ handle_confirm_request_create_failed(u) /\ UNCHANGED entered
        \/ handle_confirm_request_items_failed(u) /\ UNCHANGED entered
        \/ handle_confirm_request_log_failed(u) /\ UNCHANGED entered
        \/ handle_confirm_request_created(u) /\ UNCHANGED entered
        \/ handle_confirm_request_resume(u) /\ UNCHANGED entered

SpecUnregistered == Init /\ [][UnregisteredNext({102})]_vars

StoreNext ==
    \E p \in Procs :
        \/ create_request_call(p)
        \/ generate_request_code_retry(p)
        \/ generate_request_code_recursion_error(p)
        \/ generate_request_code_return(p)
        \/ create_request_commit(p)
        \/ create_request_integrity_error(p)
        \/ create_request_store_error(p)
        \/ add_request_item(p)
        \/ add_request_item_store_error(p)
        \/ create_request_done(p)
        \/ update_request_status_read(p)
        \/ update_request_status_not_found(p)
        \/ update_request_status_write(p)
        \/ update_request_status_store_error(p)

SpecStore == Init /\ [][StoreNext]_vars

\* One caller of HelpDeskDB and the SLA check that marks requests.
SlaNext ==
    \/ \E code \in Codes : mark_sla_notified(code)
    \/ \E p \in {1} :
          \/ create_request_call(p)
          \/ generate_request_code_retry(p)
          \/ generate_request_code_recursion_error(p)
          \/ generate_request_code_return(p)
          \/ create_request_commit(p)
          \/ create_request_store_error(p)
          \/ add_request_item(p)
          \/ add_request_item_store_error(p)
          \/ create_request_done(p)
          \/ update_request_status_read(p)
          \/ update_request_status_not_found(p)
          \/ update_request_status_write(p)
          \/ update_request_status_store_error(p)

SpecSla == Init /\ [][SlaNext]_vars

\* One caller of HelpDeskDB while the test script's clean-up runs (nobody
\* takes the caller's code between _generate_request_code and the INSERT).
CleanupNext ==
    \/ cleanup_test_data
    \/ \E p \in {1} :
          \/ create_request_call(p)
          \/ generate_request_code_retry(p)
          \/ generate_request_code_recursion_error(p)
          \/ generate_request_code_return(p)
          \/ create_request_commit(p)
          \/ create_request_store_error(p)
          \/ add_request_item(p)
          \/ add_request_item_not_found(p)
          \/ add_request_item_store_error(p)
          \/ create_request_done(p)
          \/ update_request_status_read(p)
          \/ update_request_status_not_found(p)
          \/ update_request_status_write(p)
          \/ update_request_status_store_error(p)

SpecCleanup == Init /\ [][CleanupNext]_vars

\* ================================================================ claims

\* rows of one request
CreatedLogs(r) == SelectSeq(logs, LAMBDA l : l.request_id = r /\ l.action = "created")
ItemPairs(r) == [i \in 1..Len(ItemsOf(r)) |->
                    <<ItemsOf(r)[i].cartridge_type_id, ItemsOf(r)[i].quantity>>]

\* C1: CreateRequest is all-or-nothing.  Once a caller's attempt (create_request
\* followed by add_request_item for each of its items) has ended, either it
\* succeeded and the request row, all of its item rows and exactly one
\* 'created' log row exist, or it failed and no row of the attempt exists.
C1_AllOrNothing ==
    \A p \in Procs :
        (pc[p] = "idle" /\ loc[p].op = "create") =>
            \/ /\ result[p] = "ok"
               /\ loc[p].rid \in RequestIds
               /\ \E in \in CreateInputs : ItemPairs(loc[p].rid) = in.todo
               /\ Len(CreatedLogs(loc[p].rid)) = 1
            \/ /\ result[p] # "ok"
               /\ loc[p].rid \notin RequestIds
               /\ ItemsOf(loc[p].rid) = <<>>
               /\ LogsOf(loc[p].rid) = <<>>

\* C2: every change of a request's status follows an edge of the legal graph.
C2_OnlyLegalEdges ==
    [][\A r \in RequestIds :
          (r \in DOMAIN requests' /\ requests'[r].status # requests[r].status)
              => <<requests[r].status, requests'[r].status>> \in Legal]_vars

\* C3: of two UpdateStatus(r, in_progress) calls that both read status new,
\* only one succeeds: a request never has two log rows new -> in_progress.
C3_OneWinner ==
    \A r \in RequestIds :
        Cardinality({i \in 1..Len(logs) :
                        /\ logs[i].request_id = r
                        /\ logs[i].from_status = "new"
                        /\ logs[i].to_status = "in_progress"}) <= 1

\* C4: a call of UpdateStatus that asks for an edge outside the legal graph
\* (the request's status when the call writes, to the status asked for) fails
\* and leaves the request and the log as they were.
C4_IllegalEdgeRejected ==
    [][\A p \in Procs :
          (/\ pc[p] = "upd_write"
           /\ pc'[p] = "idle"
           /\ loc[p].rid \in RequestIds
           /\ <<requests[loc[p].rid].status, loc[p].new_status>> \notin Legal)
              => (requests' = requests /\ logs' = logs /\ result'[p] # "ok")]_vars

\* C8: no two requests carry the same code, and the code of a request never
\* changes, whatever the interleaving of the callers of create_request.
CodesUnique ==
    \A r1 \in RequestIds : \A r2 \in RequestIds :
        r1 # r2 => requests[r1].request_code # requests[r2].request_code

CodesImmutable ==
    \A r \in RequestIds :
        r \in DOMAIN requests' => requests'[r].request_code = requests[r].request_code

C8_CodeUniqueImmutable == [] CodesUnique /\ [][CodesImmutable]_vars

\* Two requests are stored and a third create_request, whose candidate was
\* free when it was checked, was refused by the UNIQUE constraint.
C8_Witness ==
    /\ Cardinality(RequestIds) = 2
    /\ \E p \in Procs : result[p] = "IntegrityError"

\* C9: concurrent CreateRequest calls all succeed: none is refused because
\* another caller took its candidate code between its check and its insert.
C9_NoCallerFails == \A p \in Procs : result[p] # "IntegrityError"

\* C10: code generation gives up after at most 5 failed attempts: no call is
\* still drawing candidates after 5 of its candidates were found taken.
C10_BoundedAttempts == \A p \in Procs : pc[p] = "gen" => loc[p].depth < 5

\* C5: in state entering_quantity a quantity text that is not a number, or is a
\* number <= 0, leaves the state at entering_quantity and the stored fields
\* (branch_id, priority, cartridge_id, no quantity) exactly as they were.
InvalidQuantityTexts == { <<"a", "b">>, <<"0">>, <<"-", "3">>, CancelText }

C5_InvalidQuantityKeepsSession ==
    [][\A u \in Users : \A text \in InvalidQuantityTexts :
          handle_quantity_input(u, text)
              => /\ fsm_state'[u] = "entering_quantity"
                 /\ fsm_data'[u] = fsm_data[u]]_vars

\* The bot waits for the quantity of a form whose other fields are stored.
C5_Witness ==
    /\ fsm_state[101] = "entering_quantity"
    /\ Has(fsm_data[101], "branch_id")
    /\ Has(fsm_data[101], "priority")
    /\ Has(fsm_data[101], "cartridge_id")
    /\ ~ Has(fsm_data[101], "quantity")

\* C6: a session in state confirming_request has branch_id, priority,
\* cartridge_id and quantity stored, and the quantity is positive.
C6_ConfirmingHasAllFields ==
    \A u \in Users :
        fsm_state[u] = "confirming_request" =>
            /\ Has(fsm_data[u], "branch_id")
            /\ Has(fsm_data[u], "priority")
            /\ Has(fsm_data[u], "cartridge_id")
            /\ Has(fsm_data[u], "quantity")
            /\ fsm_data[u]["quantity"] > 0

C6_Witness == \E u \in Users : fsm_state[u] = "confirming_request"

\* C7: the tables change only in a step of the confirm handler taken for a
\* user whose session is in state confirming_request.
C7_OnlyConfirmInConfirmingWrites ==
    [][<<requests, items, logs>>' # <<requests, items, logs>>
          => \E u \in Users : /\ fsm_state[u] = "confirming_request"
                              /\ awaiting'[u] = awaiting[u] + 1]_vars

\* the session of user u is the same after the step as before it
SessionUnchanged(u) ==
    /\ fsm_state'[u] = fsm_state[u]
    /\ fsm_data'[u] = fsm_data[u]

\* C11: an event received in a state that does not accept it is rejected and
\* leaves the session as it was: SelectBranch outside selecting_branch,
\* SelectPriority outside selecting_priority and SelectCartridge outside
\* selecting_cartridges change neither the state nor the fields, and a Confirm
\* outside confirming_request does not run the confirm handler.
C11_UnexpectedEventRejected ==
    [][\A u \in Users :
          /\ ((\E id \in BranchIds : handle_branch_selection(u, id))
                 /\ fsm_state[u] # "selecting_branch") => SessionUnchanged(u)
          /\ ((\E priority \in PriorityInputs : handle_priority_selection(u, priority))
                 /\ fsm_state[u] # "selecting_priority") => SessionUnchanged(u)
          /\ ((\E id \in CartridgeIds : handle_cartridge_selection(u, id))
                 /\ fsm_state[u] # "selecting_cartridges") => SessionUnchanged(u)
          /\ (awaiting'[u] = awaiting[u] + 1)
                 => fsm_state[u] = "confirming_request"]_vars

\* C12: every request in the store has exactly one log row with
\* action = 'created', and that row goes from no status to new.
C12_ExactlyOneCreated ==
    \A r \in RequestIds :
        /\ Len(CreatedLogs(r)) = 1
        /\ CreatedLogs(r)[1].from_status = "None"
        /\ CreatedLogs(r)[1].to_status = "new"

\* C13: the log rows of a request, in the order they were written, form a
\* chain: every row after the first starts from the status the row before it
\* ended in, so each status_changed row carries the status the request really
\* had before that change.
C13_LogChain ==
    \A r \in RequestIds :
        \A i \in 1..(Len(LogsOf(r)) - 1) :
            LogsOf(r)[i + 1].from_status = LogsOf(r)[i].to_status

\* C14: a request's completed_at is set exactly when its status is done: it is
\* unset for new, in_progress, cancelled and archived requests and set for
\* every done request.
C14_CompletedIffDone ==
    \A r \in RequestIds : requests[r].completed_at <=> (requests[r].status = "done")

\* C15: every request an observer of the store can see has at least one item
\* row, and every item row has a quantity above 0.
C15_RequestHasItems ==
    /\ \A r \in RequestIds : Len(ItemsOf(r)) >= 1
    /\ \A i \in 1..Len(items) : items[i].quantity > 0

\* the fields of a session other than key are the same after the step
OtherFieldsKept(u, key) ==
    /\ DOMAIN fsm_data'[u] = DOMAIN fsm_data[u] \cup {key}
    /\ \A k \in DOMAIN fsm_data[u] \ {key} : fsm_data'[u][k] = fsm_data[u][k]

C17_CancelDiscardsSession ==
    [][\A u \in Users :
          (cmd_cancel(u) /\ fsm_state[u] # "None") =>
              /\ fsm_state'[u] = "None"
              /\ fsm_data'[u] = <<>>
              /\ UNCHANGED <<requests, items, logs>>]_vars

\* C18: when the creation of the request fails during Confirm(true), the user
\* is answered with an error, no row of the failed attempt is in the tables,
\* and the handler clears the session (state None, no fields) when it ends.
C18_FailedCreateLeavesNothing ==
    [][\A u \in Users :
          /\ (awaiting'[u] = awaiting[u] + 1 /\ outcome'[u] = "error")
                => UNCHANGED <<requests, items, logs>>
          /\ (awaiting'[u] = awaiting[u] - 1 /\ outcome[u] = "error")
                => (fsm_state'[u] = "None" /\ fsm_data'[u] = <<>>)]_vars

\* C19: when the confirm handler has handled Confirm(true) or Confirm(false),
\* the session is discarded (state None, no fields); Confirm(false) writes no
\* request, no item and no log row.
C19_ConfirmDiscardsSession ==
    [][\A u \in Users :
          /\ (awaiting'[u] = awaiting[u] - 1)
                => (fsm_state'[u] = "None" /\ fsm_data'[u] = <<>>)
          /\ (awaiting'[u] = awaiting[u] + 1 /\ outcome'[u] = "cancelled")
                => UNCHANGED <<requests, items, logs, nextId>>]_vars

\* A Confirm(true) of user 101 created a request, its handler has ended and the
\* session is gone.
C19_Witness ==
    /\ \E r \in RequestIds : requests[r].user_id = 101 /\ Len(CreatedLogs(r)) = 1
    /\ awaiting[101] = 0
    /\ fsm_state[101] = "None"
    /\ fsm_data[101] = <<>>

\* requests whose creation succeeded: the request row with its created log row
Succeeded == Cardinality({r \in RequestIds : Len(CreatedLogs(r)) = 1})

C21_UnresolvedIdRejected ==
    [][\A u \in Users :
          /\ \A id \in BranchIds \ Branches :
                (fsm_state[u] = "selecting_branch" /\ handle_branch_selection(u, id))
                    => SessionUnchanged(u)
          /\ \A id \in CartridgeIds \ Cartridges :
                (fsm_state[u] = "selecting_cartridges"
                    /\ handle_cartridge_selection(u, id))
                    => SessionUnchanged(u)]_vars

\* The history of request r in the logs table ls.
GetHistory(ls, r) == SelectSeq(ls, LAMBDA l : l.request_id = r)

IsPrefix(s, t) == Len(s) <= Len(t) /\ SubSeq(t, 1, Len(s)) = s

C23_StatusAndLogTogether ==
    [][LET last == logs'[Len(logs')]
           appended == Len(logs') = Len(logs) + 1 /\ SubSeq(logs', 1, Len(logs)) = logs
       IN  /\ \A r \in DOMAIN requests \cap DOMAIN requests' :
                 requests'[r] # requests[r]
                     => /\ appended
                        /\ last.action = "status_changed"
                        /\ last.request_id = r
                        /\ last.to_status = requests'[r].status
           /\ (appended /\ last.action = "status_changed")
                 => /\ last.request_id \in DOMAIN requests'
                    /\ requests'[last.request_id].status = last.to_status
           /\ \A p \in Procs :
                 (pc[p] = "upd_write" /\ result'[p] = "StoreError")
                     => UNCHANGED <<requests, logs>>]_vars

\* An update took a request to in_progress and its entry is the newest row of
\* the log.
C23_Witness ==
    /\ logs # <<>>
    /\ logs[Len(logs)].action = "status_changed"
    /\ logs[Len(logs)].from_status = "new"
    /\ logs[Len(logs)].to_status = "in_progress"
    /\ requests[logs[Len(logs)].request_id].status = "in_progress"
    /\ \E p \in Procs : result[p] = "ok" /\ loc[p].op = "none"

\* <<cartridge_type_id, quantity>> of the rows get_request_items returns
ReturnedItems(reqs, its, code) ==
    [k \in 1..Len(ItemsByCode(reqs, its, code)) |->
        << ItemsByCode(reqs, its, code)[k].cartridge_type_id,
           ItemsByCode(reqs, its, code)[k].quantity >>]

\* C25: once create_request has committed a request under code c,
\* get_request_by_code(c) returns exactly one request, with code c, the
\* branch, user and priority of the call and status new; every
\* add_request_item extends what get_request_items(c) returns by exactly the
\* item added; and when the caller is done get_request_items(c) returns
\* exactly the items of the call, with their quantities.
C25_CreatedIsReturned ==
    [][\A p \in Procs :
          LET c == loc[p].code IN
          /\ (pc[p] = "insert" /\ pc'[p] = "items")
                => /\ RequestsByCode(requests', c) = {loc'[p].rid}
                   /\ requests'[loc'[p].rid].request_code = c
                   /\ requests'[loc'[p].rid].branch_id = loc[p].branch_id
                   /\ requests'[loc'[p].rid].user_id = loc[p].user_id
                   /\ requests'[loc'[p].rid].priority = loc[p].priority
                   /\ requests'[loc'[p].rid].status = "new"
                   /\ ReturnedItems(requests', items', c) = <<>>
          /\ (pc[p] = "items" /\ pc'[p] = "items" /\ loc'[p] # loc[p])
                => ReturnedItems(requests', items', c)
                      = Append(ReturnedItems(requests, items, c), Head(loc[p].todo))
          /\ (pc[p] = "items" /\ result'[p] = "ok")
                => /\ RequestsByCode(requests', c) = {loc[p].rid}
                   /\ \E in \in CreateInputs :
                         /\ requests'[loc[p].rid].branch_id = in.branch_id
                         /\ requests'[loc[p].rid].user_id = in.user_id
                         /\ requests'[loc[p].rid].priority = in.priority
                         /\ ReturnedItems(requests', items', c) = in.todo]_vars

\* A caller is done with a request of two items, and both are returned under
\* the request's code.
C25_Witness ==
    \E p \in Procs, r \in RequestIds :
        /\ pc[p] = "idle" /\ result[p] = "ok" /\ loc[p].op = "create"
        /\ loc[p].rid = r
        /\ get_request_by_code(requests[r].request_code) = {r}
        /\ ReturnedItems(requests, items, requests[r].request_code)
              = << <<1, 3>>, <<2, 2>> >>

Session(u) == <<fsm_state[u], fsm_data[u], awaiting[u], outcome[u], to_notify[u]>>

\* C24: sessions are independent: a step that belongs to one user's event
\* (it changes that user's session) leaves the state and the fields of every
\* other user's session as they were, and the request a user's confirmation
\* commits carries that user's id and the branch, priority, comment, cartridge
\* and quantity of that user's own session, whatever the other user's session
\* holds at that moment.
C24_SessionsIndependent ==
    [][/\ \A u \in Users : \A v \in Users \ {u} :
             Session(u)' # Session(u) => Session(v)' = Session(v)
       /\ nextId' # nextId
             => \E u \in Users :
                   /\ awaiting'[u] = awaiting[u] + 1
                   /\ requests'[nextId].user_id = u
                   /\ requests'[nextId].branch_id = fsm_data[u]["branch_id"]
                   /\ requests'[nextId].priority = fsm_data[u]["priority"]
                   /\ requests'[nextId].comment = fsm_data[u]["comment"]
                   /\ items' # items
                         => items' = Append(items,
                                        [request_id |-> nextId,
                                         cartridge_type_id |-> fsm_data[u]["cartridge_id"],
                                         quantity |-> fsm_data[u]["quantity"]])]_vars

\* User 101 has committed a request for branch 1 while user 102 is in the
\* middle of a form for branch 2, and later commits it.
C24_Witness ==
    /\ RequestIds = {1, 2}
    /\ requests[1].user_id = 101 /\ requests[1].branch_id = 1
    /\ requests[2].user_id = 102 /\ requests[2].branch_id = 2
    /\ Len(items) = 2
    /\ fsm_state[101] = "selecting_priority"
    /\ fsm_data[101] = [branch_id |-> 2]
    /\ outcome[102] = "created" /\ awaiting[102] = 1

\* C27: a session that stays idle is eventually evicted: no session stays
\* open for ever without an event changing it; either the user is back in
\* state None again and again, or events keep changing the session.
C27_IdleSessionEvicted ==
    \/ []<>(fsm_state[101] = "None" /\ fsm_data[101] = <<>>)
    \/ []<><<TRUE>>_<<fsm_state[101], fsm_data[101]>>

\* the fixed order of the form
FlowOrder ==
    { <<"None", "selecting_branch">>,
      <<"selecting_branch", "selecting_priority">>,
      <<"selecting_priority", "selecting_cartridges">>,
      <<"selecting_cartridges", "entering_quantity">>,
      <<"entering_quantity", "adding_comment">>,
      <<"adding_comment", "confirming_request">>,
      <<"confirming_request", "None">> }

\* C28: every event that changes the state of a session advances it by
\* exactly one step of the fixed order None -> selecting_branch ->
\* selecting_priority -> selecting_cartridges -> entering_quantity ->
\* adding_comment -> confirming_request -> None; no step moves it backwards
\* or past a state, and the state is always one of these seven.
C28_OneStepForward ==
    /\ [](\A u \in Users : \E e \in FlowOrder : fsm_state[u] = e[1])
    /\ [][\A u \in Users :
             fsm_state'[u] # fsm_state[u]
                 => <<fsm_state[u], fsm_state'[u]>> \in FlowOrder]_vars

\* C29: in entering_quantity a text that parses to an integer q > 0 stores
\* quantity = q and moves the session to adding_comment, whatever rejected
\* texts came before; the quantity a session holds is always the value of an
\* accepted text (12 here), never that of a rejected one (0, -3, 3).
C29_ValidQuantityStored ==
    /\ [](\A u \in Users :
             Has(fsm_data[u], "quantity") => fsm_data[u]["quantity"] = 12)
    /\ [][\A u \in Users :
             (/\ fsm_state[u] = "entering_quantity"
              /\ fsm_state'[u] # fsm_state[u]
              /\ handle_quantity_input(u, <<" ", "1", "2">>))
                 => /\ fsm_state'[u] = "adding_comment"
                    /\ fsm_data'[u]["quantity"] = 12
                    /\ OtherFieldsKept(u, "quantity")]_vars

\* A session took the quantity 12 and went on to the comment.
C29_Witness ==
    /\ fsm_state[101] = "adding_comment"
    /\ Has(fsm_data[101], "quantity")
    /\ fsm_data[101]["quantity"] = 12
    /\ Has(fsm_data[101], "cartridge_id")

\* C30: in adding_comment, EnterComment stores comment = None when the text
\* is "-" or empty and the raw text otherwise, and moves the session to
\* confirming_request; the request committed afterwards carries that comment.
C30_CommentStored ==
    [][\A u \in Users :
          /\ \A text \in FlowCommentTexts :
                (fsm_state[u] = "adding_comment" /\ handle_comment_input(u, text))
                    => /\ fsm_state'[u] = "confirming_request"
                       /\ fsm_data'[u]["comment"]
                             = IF text \in {"-", ""} THEN "None" ELSE text
          /\ (awaiting'[u] = awaiting[u] + 1 /\ nextId' # nextId)
                => requests'[nextId].comment = fsm_data[u]["comment"]]_vars

\* C31: the priority a session holds and the priority of every committed
\* request is one of low, normal, high; SelectPriority with any other value
\* stores no priority and does not advance the session.
C31_PriorityIsEnumerated ==
    /\ [](\A u \in Users :
             Has(fsm_data[u], "priority") => fsm_data[u]["priority"] \in Priorities)
    /\ [](\A r \in RequestIds : requests[r].priority \in Priorities)
    /\ [][\A u \in Users : \A priority \in PriorityInputs \ Priorities :
             (fsm_state[u] = "selecting_priority"
                 /\ handle_priority_selection(u, priority))
                 => SessionUnchanged(u)]_vars

\* C32: a completed form commits at most one request: while a confirm handler
\* that created the request of a session is still suspended before
\* state.clear(), another Confirm for the same session writes no request, no
\* item and no 'created' entry.
C32_DuplicateConfirmWritesNothing ==
    [][\A u \in Users :
          (to_notify[u] > 0 /\ awaiting'[u] = awaiting[u] + 1)
              => UNCHANGED <<requests, items, logs>>]_vars

\* C33: every field of a committed request was entered after the user's most
\* recent StartRequest: the step of a confirm handler that writes a request
\* finds branch_id, priority and comment among the fields stored since the
\* last /new, and cartridge_id and quantity too when it writes the item.
C33_NoFieldOfAbandonedAttempt ==
    [][\A u \in Users :
          (awaiting'[u] = awaiting[u] + 1 /\ nextId' # nextId)
              => /\ {"branch_id", "priority", "comment"} \subseteq entered[u]
                 /\ items' # items
                       => {"cartridge_id", "quantity"} \subseteq entered[u]]_vars

\* C34: for every request with at least one log entry, the to_status of its
\* most recent entry is the request's current status, in every state and under
\* every interleaving of create_request and update_request_status.
C34_LastEntryIsStatus ==
    \A r \in RequestIds :
        LogsOf(r) # <<>>
            => LogsOf(r)[Len(LogsOf(r))].to_status = requests[r].status

\* Two updates that both read status new were written one after the other:
\* the request has the status of the later one.
C34_Witness ==
    \E r \in RequestIds :
        /\ Len(LogsOf(r)) = 3
        /\ LogsOf(r)[2].from_status = "new"
        /\ LogsOf(r)[3].from_status = "new"
        /\ LogsOf(r)[2].to_status = "in_progress"
        /\ LogsOf(r)[3].to_status = "cancelled"
        /\ requests[r].status = "cancelled"

\* caller p takes a step of its own
CallerStep(p) == <<pc[p], loc[p], result[p]>>' # <<pc[p], loc[p], result[p]>>

\* C35: update_request_status and add_request_item called with a code that
\* matches no request fail with an error and write nothing: the call of
\* add_request_item whose code no request carries ends with an error and
\* leaves requests, items and logs as they were, no call of
\* update_request_status goes on to its write with such a code, and the step
\* that raises ValueError changes no table.
C35_UnknownCodeWritesNothing ==
    [][\A p \in Procs :
          /\ (/\ CallerStep(p)
              /\ pc[p] = "items" /\ loc[p].todo # <<>>
              /\ get_request_by_code(loc[p].code) = {})
                 => /\ result'[p] \in {"ValueError", "StoreError"}
                    /\ pc'[p] = "idle"
                    /\ UNCHANGED store
          /\ (pc[p] = "idle" /\ pc'[p] = "upd_write")
                 => get_request_by_code(loc'[p].code) # {}
          /\ (CallerStep(p) /\ result'[p] = "ValueError")
                 => UNCHANGED store]_vars

\* add_request_item has raised ValueError for a request that was deleted after
\* its first item was added: the item of the deleted request is all there is.
C35_Witness ==
    /\ result[1] = "ValueError"
    /\ loc[1].op = "create"
    /\ loc[1].rid \notin RequestIds
    /\ Len(items) = 1
    /\ items[1].request_id = loc[1].rid

\* C36: StartRequest opens no session for a user who is not registered (or
\* when the catalog lists no branch): it leaves the user's state and fields
\* as they are, and since no StartRequest of user 102 ever succeeds, no event
\* of that user creates a request.
C36_NoRequestWithoutStart ==
    /\ [][\A u \in Users : cmd_new_request_not_found(u) => SessionUnchanged(u)]_vars
    /\ [](\A r \in RequestIds : requests[r].user_id # 102)

\* C37: whatever requests are overdue, get_sla_violations returns only
\* requests whose status is new or in_progress and whose sla_notified_at is
\* unset; mark_sla_notified sets sla_notified_at of the request with the code,
\* no later step unsets it, so a marked request is never returned again
\* whatever status changes follow; a request that is done, cancelled or
\* archived is never returned.
C37_SlaViolations ==
    /\ [](\A overdue \in SUBSET RequestIds : \A r \in RequestIds :
             /\ r \in get_sla_violations(overdue)
                   => /\ requests[r].status \in {"new", "in_progress"}
                      /\ ~ requests[r].sla_notified_at
             /\ requests[r].sla_notified_at => r \notin get_sla_violations(overdue)
             /\ requests[r].status \in {"done", "cancelled", "archived"}
                   => r \notin get_sla_violations(overdue))
    /\ [][/\ \A r \in RequestIds :
                requests[r].sla_notified_at
                    => r \in DOMAIN requests' /\ requests'[r].sla_notified_at
          /\ \A code \in Codes : \A r \in RequestIds :
                (mark_sla_notified(code) /\ requests[r].request_code = code)
                    => requests'[r].sla_notified_at]_vars

\* A request was marked while it was new and was taken to in_progress
\* afterwards: it is overdue, open and not returned.
C37_Witness ==
    \E r \in RequestIds :
        /\ requests[r].sla_notified_at
        /\ requests[r].status = "in_progress"
        /\ get_sla_violations(RequestIds) = RequestIds \ {r}
        /\ Cardinality(RequestIds) = 2

\* C38: a step that deletes a request removes all of its items and all of its
\* log entries with it: after the step no item and no log entry refers to a
\* request that does not exist, and the items and log entries of the other
\* requests are as they were.
C38_DeleteCascades ==
    [][\A request_id \in RequestIds :
          request_id \notin DOMAIN requests'
              => /\ \A i \in 1..Len(items') : items'[i].request_id \in DOMAIN requests'
                 /\ \A l \in 1..Len(logs') : logs'[l].request_id \in DOMAIN requests'
                 /\ items' = SelectSeq(items, LAMBDA i : i.request_id # request_id)
                 /\ logs' = SelectSeq(logs, LAMBDA l : l.request_id # request_id)]_vars
====
